---- MODULE Spec2Model ----
(***************************************************************************)
(* One buffered (AWS Lambda) transaction of hakoniwa:                      *)
(*   Application.process_lambda_request  (src/hakoniwa/web.py)             *)
(*   LambdaRequest / LambdaResponse      (src/hakoniwa/impl_lambda.py)     *)
(* Bytes are sequences of 0..255, text is a sequence of code points.       *)
(***************************************************************************)
EXTENDS Integers, Sequences, FiniteSets, TLC

\* ------------------------------------------------------------------------
\* Bounds of the model.
\* ------------------------------------------------------------------------
\* Calls that handler code (entry point and offloaded work) makes on the
\* Request and the Response during one transaction.
MaxOps == 5

\* Names in a multi-valued header map given to the grouping on its own.
MaxHdrNames == 2

\* Bytes in a body given to the body translation on its own.
MaxBody == 3

\* ------------------------------------------------------------------------
\* bytes.decode() / str.encode(): strict UTF-8.
\* ------------------------------------------------------------------------
IsCont(b) == b >= 128 /\ b <= 191

\* Number of bytes of the well-formed UTF-8 sequence starting at b[i],
\* 0 if there is none (what makes bytes.decode() raise UnicodeDecodeError).
Utf8SeqLen(b, i) ==
    LET n  == Len(b)
        b0 == b[i]
        b1 == IF i + 1 <= n THEN b[i + 1] ELSE 0
        b2 == IF i + 2 <= n THEN b[i + 2] ELSE 0
        b3 == IF i + 3 <= n THEN b[i + 3] ELSE 0
    IN  IF b0 <= 127 THEN 1
        ELSE IF b0 >= 194 /\ b0 <= 223
             THEN (IF IsCont(b1) THEN 2 ELSE 0)
        ELSE IF b0 >= 224 /\ b0 <= 239
             THEN (IF /\ IsCont(b1) /\ IsCont(b2)
                      /\ (b0 = 224 => b1 >= 160)
                      /\ (b0 = 237 => b1 <= 159)
                   THEN 3 ELSE 0)
        ELSE IF b0 >= 240 /\ b0 <= 244
             THEN (IF /\ IsCont(b1) /\ IsCont(b2) /\ IsCont(b3)
                      /\ (b0 = 240 => b1 >= 144)
                      /\ (b0 = 244 => b1 <= 143)
                   THEN 4 ELSE 0)
        ELSE 0

Utf8CodePoint(b, i, k) ==
    IF k = 1 THEN b[i]
    ELSE IF k = 2 THEN (b[i] - 192) * 64 + (b[i + 1] - 128)
    ELSE IF k = 3 THEN (b[i] - 224) * 4096 + (b[i + 1] - 128) * 64
                       + (b[i + 2] - 128)
    ELSE (b[i] - 240) * 262144 + (b[i + 1] - 128) * 4096
         + (b[i + 2] - 128) * 64 + (b[i + 3] - 128)

RECURSIVE Utf8DecodeFrom(_, _, _)
Utf8DecodeFrom(b, i, acc) ==
    IF i > Len(b) THEN [ok |-> TRUE, text |-> acc]
    ELSE LET k == Utf8SeqLen(b, i)
         IN  IF k = 0 THEN [ok |-> FALSE, text |-> <<>>]
             ELSE Utf8DecodeFrom(b, i + k, Append(acc, Utf8CodePoint(b, i, k)))

\* body_bytes.decode(): ok = FALSE stands for UnicodeDecodeError.
Utf8Decode(b) == Utf8DecodeFrom(b, 1, <<>>)

Utf8EncodeCp(c) ==
    IF c < 128 THEN <<c>>
    ELSE IF c < 2048 THEN <<192 + (c \div 64), 128 + (c % 64)>>
    ELSE IF c < 65536
         THEN <<224 + (c \div 4096), 128 + ((c \div 64) % 64), 128 + (c % 64)>>
    ELSE <<240 + (c \div 262144), 128 + ((c \div 4096) % 64),
           128 + ((c \div 64) % 64), 128 + (c % 64)>>

RECURSIVE Utf8Encode(_)
\* str.encode()
Utf8Encode(t) ==
    IF t = <<>> THEN <<>> ELSE Utf8EncodeCp(Head(t)) \o Utf8Encode(Tail(t))

\* ------------------------------------------------------------------------
\* base64.b64encode() / base64.b64decode() (standard alphabet).
\* ------------------------------------------------------------------------
\* Code point of the base64 digit of value v (0..63).
B64Char(v) ==
    IF v < 26 THEN 65 + v
    ELSE IF v < 52 THEN 97 + (v - 26)
    ELSE IF v < 62 THEN 48 + (v - 52)
    ELSE IF v = 62 THEN 43
    ELSE 47

\* Value of the base64 digit with code point c, 64 if c is not a digit.
B64Val(c) ==
    IF c >= 65 /\ c <= 90 THEN c - 65
    ELSE IF c >= 97 /\ c <= 122 THEN c - 97 + 26
    ELSE IF c >= 48 /\ c <= 57 THEN c - 48 + 52
    ELSE IF c = 43 THEN 62
    ELSE IF c = 47 THEN 63
    ELSE 64

RECURSIVE B64Encode(_)
B64Encode(b) ==
    IF Len(b) = 0 THEN <<>>
    ELSE IF Len(b) = 1
         THEN <<B64Char(b[1] \div 4), B64Char((b[1] % 4) * 16), 61, 61>>
    ELSE IF Len(b) = 2
         THEN <<B64Char(b[1] \div 4),
                B64Char((b[1] % 4) * 16 + (b[2] \div 16)),
                B64Char((b[2] % 16) * 4), 61>>
    ELSE <<B64Char(b[1] \div 4),
           B64Char((b[1] % 4) * 16 + (b[2] \div 16)),
           B64Char((b[2] % 16) * 4 + (b[3] \div 64)),
           B64Char(b[3] % 64)>> \o B64Encode(SubSeq(b, 4, Len(b)))

RECURSIVE A2bBase64(_, _, _, _, _, _)
\* binascii.a2b_base64 in its default, non-strict mode: characters outside
\* the alphabet are skipped, decoding stops at sufficient padding, and
\* leftover digits raise binascii.Error (ok = FALSE).
A2bBase64(s, i, quad_pos, leftchar, pads, out) ==
    IF i > Len(s)
    THEN [ok |-> quad_pos = 0, bytes |-> IF quad_pos = 0 THEN out ELSE <<>>]
    ELSE IF s[i] = 61
         THEN (IF quad_pos >= 2 /\ quad_pos + pads + 1 >= 4
               THEN [ok |-> TRUE, bytes |-> out]
               ELSE A2bBase64(s, i + 1, quad_pos, leftchar, pads + 1, out))
    ELSE LET v == B64Val(s[i])
         IN  IF v = 64
             THEN A2bBase64(s, i + 1, quad_pos, leftchar, pads, out)
             ELSE IF quad_pos = 0
                  THEN A2bBase64(s, i + 1, 1, v, 0, out)
             ELSE IF quad_pos = 1
                  THEN A2bBase64(s, i + 1, 2, v % 16, 0,
                                 Append(out, leftchar * 4 + (v \div 16)))
             ELSE IF quad_pos = 2
                  THEN A2bBase64(s, i + 1, 3, v % 4, 0,
                                 Append(out, leftchar * 16 + (v \div 4)))
             ELSE A2bBase64(s, i + 1, 0, 0, 0, Append(out, leftchar * 64 + v))

B64Decode(s) == A2bBase64(s, 1, 0, 0, 0, <<>>)

\* b"".join(chunks)
RECURSIVE Join(_)
Join(chunks) ==
    IF chunks = <<>> THEN <<>> ELSE Head(chunks) \o Join(Tail(chunks))

\* ------------------------------------------------------------------------
\* Strings: str.upper() / str.lower() on the names the model uses.
\* ------------------------------------------------------------------------
Upper(s) ==
    CASE s = "get" -> "GET"
      [] s = "post" -> "POST"
      [] s = "brew" -> "BREW"
      [] OTHER -> s

Lower(s) ==
    CASE s = "Content-Length" -> "content-length"
      [] s = "CONTENT-LENGTH" -> "content-length"
      [] s = "Set-Cookie" -> "set-cookie"
      [] s = "SET-COOKIE" -> "set-cookie"
      [] s = "X-A" -> "x-a"
      [] s = "Content-Type" -> "content-type"
      [] s = "X-Forwarded-Proto" -> "x-forwarded-proto"
      [] s = "HTTPS" -> "https"
      [] s = "GOPHER" -> "gopher"
      [] OTHER -> s

\* Members of the closed enums of hakoniwa.constants that the model uses.
HttpRequestMethods == {"GET", "POST"}
HttpVersions == {"HTTP/1.0", "HTTP/1.1"}
HttpSchemes == {"http", "https"}

\* An optional value is <<>> (absent) or <<v>>.
None == <<>>
Some(v) == <<v>>

\* ------------------------------------------------------------------------
\* magicdict.FrozenTolerantMagicDict: an ordered sequence of <<name, value>>
\* pairs whose names are stored lower-cased.
\* ------------------------------------------------------------------------
\* Mutant of TolerantMagicDict: the names keep their letter case.
TolerantMagicDictNoFold(pairs) == pairs

RECURSIVE FlattenOne(_, _)
\* for value in values: list.append((key, value))
FlattenOne(key, values) ==
    IF values = <<>> THEN <<>>
    ELSE <<<<key, Head(values)>>>> \o FlattenOne(key, Tail(values))

RECURSIVE Flatten(_)
\* for key, values in mapping.items(): for value in values: append
Flatten(m) ==
    IF m = <<>> THEN <<>>
    ELSE FlattenOne(Head(m)[1], Head(m)[2]) \o Flatten(Tail(m))

TolerantMagicDict(pairs) ==
    [i \in 1..Len(pairs) |-> <<Lower(pairs[i][1]), pairs[i][2]>>]

\* get_first(name, default)
GetFirst(d, name, default) ==
    LET hits == {i \in 1..Len(d) : d[i][1] = Lower(name)}
    IN  IF hits = {} THEN default
        ELSE d[CHOOSE i \in hits : \A j \in hits : i <= j][2]

\* ------------------------------------------------------------------------
\* LambdaRequest.__init__: decoding of the inbound event.
\* ------------------------------------------------------------------------
DecodeError(e) == [ok |-> FALSE, error |-> e]

\* self._body (lines 37-41); the event's body is absent, null or a str.
DecodeBody(event) ==
    IF event.isBase64Encoded = None THEN DecodeError("KeyError")
    ELSE IF event.body.kind = "absent" THEN DecodeError("KeyError")
    ELSE IF event.isBase64Encoded[1]
         THEN (IF event.body.kind = "null" THEN DecodeError("TypeError")
               ELSE LET d == B64Decode(event.body.text)
                    IN  IF d.ok THEN [ok |-> TRUE, body |-> d.bytes]
                        ELSE DecodeError("binascii.Error"))
    ELSE IF event.body.kind = "null" \/ event.body.text = <<>>
         THEN [ok |-> TRUE, body |-> <<>>]
    ELSE [ok |-> TRUE, body |-> Utf8Encode(event.body.text)]

\* Lines 43-46: method and version, parsed into the closed enums.
DecodeMethod(event) ==
    IF event.httpMethod = None THEN DecodeError("KeyError")
    ELSE IF Upper(event.httpMethod[1]) \notin HttpRequestMethods
         THEN DecodeError("ValueError")
    ELSE [ok |-> TRUE, method |-> Upper(event.httpMethod[1])]

DecodeVersion(event) ==
    IF event.requestContext = None THEN DecodeError("KeyError")
    ELSE IF event.requestContext[1].protocol = None THEN DecodeError("KeyError")
    ELSE IF event.requestContext[1].protocol[1] \notin HttpVersions
         THEN DecodeError("ValueError")
    ELSE [ok |-> TRUE, version |-> event.requestContext[1].protocol[1]]

\* Lines 52-61: event.get("multiValueQueryStringParameters", {}) or {}
DecodeQueries(event) ==
    IF event.queries.kind = "map"
    THEN TolerantMagicDict(Flatten(event.queries.map))
    ELSE <<>>

\* Lines 72-73: the scheme from the x-forwarded-proto header.
DecodeScheme(headers) ==
    LET scheme_str == Lower(GetFirst(headers, "x-forwarded-proto", ""))
    IN  IF scheme_str = "" THEN [ok |-> TRUE, scheme |-> None]
        ELSE IF scheme_str \notin HttpSchemes THEN DecodeError("ValueError")
        ELSE [ok |-> TRUE, scheme |-> Some(scheme_str)]

\* LambdaRequest(event): the statements of __init__ in order; the first that
\* raises ends the construction and no Request exists.
LambdaRequestInit(event) ==
    LET b == DecodeBody(event)
        m == DecodeMethod(event)
        v == DecodeVersion(event)
    IN  IF ~b.ok THEN b
        ELSE IF ~m.ok THEN m
        ELSE IF ~v.ok THEN v
        ELSE IF event.multiValueHeaders = None THEN DecodeError("KeyError")
        ELSE LET hs == TolerantMagicDict(Flatten(event.multiValueHeaders[1]))
                 sc == DecodeScheme(hs)
             IN  IF ~sc.ok THEN sc
                 ELSE [ok |-> TRUE,
                       request |->
                         [body |-> b.body,
                          method |-> m.method,
                          version |-> v.version,
                          uri |-> IF event.path = None THEN "/"
                                  ELSE event.path[1],
                          authority |-> event.requestContext[1].domainName,
                          queries |-> DecodeQueries(event),
                          headers |-> hs,
                          scheme |-> sc.scheme]]

\* LambdaRequest.authority / LambdaRequest.scheme: reading an absent value
\* raises AttributeError.
RequestAuthority(req) ==
    IF req.authority = None THEN [ok |-> FALSE, value |-> ""]
    ELSE [ok |-> TRUE, value |-> req.authority[1]]

RequestScheme(req) ==
    IF req.scheme = None THEN [ok |-> FALSE, value |-> ""]
    ELSE [ok |-> TRUE, value |-> req.scheme[1]]

\* ------------------------------------------------------------------------
\* LambdaResponse.
\* ------------------------------------------------------------------------
\* int(status_code) of the members of constants.HttpStatusCode in use.
StatusInt(status_code) ==
    CASE status_code = "OK" -> 200
      [] status_code = "FORBIDDEN" -> 403
      [] status_code = "NOT_FOUND" -> 404
      [] OTHER -> 500

\* LambdaResponse.__init__
NewResponse(status_code, headers) ==
    [request |-> "request",
     status_code |-> status_code,
     headers |-> headers,
     body_chunks |-> <<>>,
     finished |-> FALSE]

\* Mutant of ResponseWrite: the fragment is put in front of the others.
ResponseWritePrepend(resp, data) ==
    IF data # <<>>
    THEN [resp EXCEPT !.body_chunks = <<data>> \o @]
    ELSE resp

\* LambdaResponse.write
ResponseWrite(resp, data) ==
    IF data # <<>>
    THEN [resp EXCEPT !.body_chunks = Append(@, data)]
    ELSE resp

\* A finish that also clears the headers and resets the status.
ResponseFinishClobber(resp) ==
    [resp EXCEPT !.finished = TRUE, !.headers = <<>>, !.status_code = "OK"]

\* Mutant of ResponseFinish: a second finish clears the signal.
ResponseFinishToggle(resp) == [resp EXCEPT !.finished = ~@]

\* LambdaResponse.finish: asyncio.Event.set()
ResponseFinish(resp) == [resp EXCEPT !.finished = TRUE]

\* LambdaResponse.finished: asyncio.Event.is_set()
ResponseFinished(resp) == resp.finished

\* Mutant of WaitFinishedReady: wait_finished returns without waiting.
WaitFinishedReadyAlways(resp) == TRUE

\* Event.wait() returns at once when the event is set, and suspends the
\* caller otherwise.
WaitFinishedReady(resp) == resp.finished

\* A translation that does not group: one entry per pair.
GroupHeadersNoGroup(pairs, header_lists) ==
    header_lists \o [i \in 1..Len(pairs) |-> <<pairs[i][1], <<pairs[i][2]>>>>]

RECURSIVE GroupHeaders(_, _)
\* The loop of translate over self.headers.items(): header_lists is a dict,
\* here the ordered sequence of its <<name, values>> items.
GroupHeaders(pairs, header_lists) ==
    IF pairs = <<>> THEN header_lists
    ELSE LET header_name == Head(pairs)[1]
             header_val  == Head(pairs)[2]
             at == {i \in 1..Len(header_lists) : header_lists[i][1] = header_name}
         IN  IF header_name = "content-length"
             THEN GroupHeaders(Tail(pairs), header_lists)
             ELSE IF at = {}
                  THEN GroupHeaders(Tail(pairs),
                           Append(header_lists, <<header_name, <<header_val>>>>))
             ELSE LET i == CHOOSE j \in at : TRUE
                  IN  GroupHeaders(Tail(pairs),
                          [header_lists EXCEPT ![i][2] = Append(@, header_val)])

\* A translation that base64-encodes every body.
TranslateBodyAlwaysBase64(body_chunks) ==
    [body_str |-> B64Encode(Join(body_chunks)), b64_encoded |-> TRUE]

\* Lines 232-240: the body as text, or as base64 text when it is not UTF-8.
TranslateBody(body_chunks) ==
    LET body_bytes == Join(body_chunks)
        d == Utf8Decode(body_bytes)
    IN  IF d.ok THEN [body_str |-> d.text, b64_encoded |-> FALSE]
        ELSE [body_str |-> B64Encode(body_bytes), b64_encoded |-> TRUE]

\* Mutant of TranslateStatus: the envelope always says 200.
TranslateStatusFixed(resp) == StatusInt("OK")

\* "statusCode": int(self.status_code)
TranslateStatus(resp) == StatusInt(resp.status_code)

\* Mutant of TranslateAssert: the assertion is gone.
TranslateAssertOff(resp) == TRUE

\* The assertion that opens translate.
TranslateAssert(resp) == ResponseFinished(resp)

\* LambdaResponse.translate: ok = FALSE stands for the AssertionError.
Translate(resp) ==
    IF ~TranslateAssert(resp)
    THEN [ok |-> FALSE, env |-> None]
    ELSE LET b == TranslateBody(resp.body_chunks)
         IN  [ok |-> TRUE,
              env |-> Some([isBase64Encoded |-> b.b64_encoded,
                            statusCode |-> TranslateStatus(resp),
                            multiValueHeaders |-> GroupHeaders(resp.headers, <<>>),
                            body |-> b.body_str])]

\* ------------------------------------------------------------------------
\* LambdaRequest.write_response. The slot _res_fur is 0 while the future is
\* pending and the reference of the Response once it is done.
\* ------------------------------------------------------------------------
FutureDone(fur) == fur # 0

\* Mutant of WriteResponse: the slot is not checked and is assigned again.
WriteResponseNoCheck(fur, objs, status_code, headers) ==
    [ok |-> TRUE,
     fur |-> Len(objs) + 1,
     objs |-> Append(objs,
                NewResponse(status_code, TolerantMagicDict(headers))),
     rid |-> Len(objs) + 1]

\* ok = FALSE stands for the HttpError(500, "You can only write response
\* once."); no LambdaResponse is constructed then.
WriteResponse(fur, objs, status_code, headers) ==
    IF FutureDone(fur)
    THEN [ok |-> FALSE, fur |-> fur, objs |-> objs, rid |-> 0]
    ELSE [ok |-> TRUE,
          fur |-> Len(objs) + 1,
          objs |-> Append(objs,
                     NewResponse(status_code, TolerantMagicDict(headers))),
          rid |-> Len(objs) + 1]

\* ------------------------------------------------------------------------
\* Application.process_request: the router and the handler classes.
\* ------------------------------------------------------------------------
\* Paths for which the application registered a handler.
Routes == {"/hello"}

\* Request.path
RequestPath(req) == req.uri

\* Mutant of ResolveHandler: no fallback to the default handler.
ResolveHandlerNoFallback(path) == "routed"

\* self.handlers.resolve(request.path), NoMatchesFound caught: the class of
\* the handler that is constructed.
ResolveHandler(path) == IF path \in Routes THEN "routed" ELSE "default"

\* ------------------------------------------------------------------------
\* Inputs.
\* ------------------------------------------------------------------------
BaseEvent ==
    [isBase64Encoded |-> Some(FALSE),
     body |-> [kind |-> "null", text |-> <<>>],
     httpMethod |-> Some("GET"),
     requestContext |-> Some([protocol |-> Some("HTTP/1.1"),
                              domainName |-> None]),
     path |-> Some("/hello"),
     queries |-> [kind |-> "map", map |-> <<>>],
     multiValueHeaders |-> Some(<<>>)]

ValidEvents ==
    {BaseEvent,
     [BaseEvent EXCEPT !.path = Some("/nope"), !.httpMethod = Some("post")],
     [BaseEvent EXCEPT !.path = None,
                       !.multiValueHeaders =
                           Some(<< <<"X-Forwarded-Proto", <<"HTTPS">> >> >>)]}

InvalidEvents ==
    {[BaseEvent EXCEPT !.httpMethod = None],
     [BaseEvent EXCEPT !.httpMethod = Some("brew")],
     [BaseEvent EXCEPT !.requestContext = None],
     [BaseEvent EXCEPT !.requestContext =
          Some([protocol |-> None, domainName |-> None])],
     [BaseEvent EXCEPT !.requestContext =
          Some([protocol |-> Some("SPDY/3"), domainName |-> None])],
     [BaseEvent EXCEPT !.multiValueHeaders = None],
     [BaseEvent EXCEPT !.multiValueHeaders =
          Some(<< <<"X-Forwarded-Proto", <<"GOPHER">> >> >>)],
     [BaseEvent EXCEPT !.isBase64Encoded = None]}

Events == ValidEvents \cup InvalidEvents

\* Arguments handler code passes to write_response and write.
StatusCodes == {"OK", "NOT_FOUND"}
HeaderArgs ==
    {<<>>,
     << <<"Content-Length", "2">>, <<"Content-Type", "text/plain">> >>,
     << <<"X-A", "1">>, <<"CONTENT-LENGTH", "2">>, <<"content-length", "3">> >>}
Fragments == {<<>>, <<97>>, <<195>>, <<169>>}

\* Errors the before() hook of a routed handler may raise.
HandlerErrors == {"HttpError:FORBIDDEN", "Exception"}

\* ------------------------------------------------------------------------
\* State of one transaction.
\* ------------------------------------------------------------------------
VARIABLES
    event,       \* the inbound event
    pc,          \* where process_lambda_request stands
    exc,         \* the exception that left process_lambda_request, or ""
    request,     \* None, or Some(the LambdaRequest)
    res_fur,     \* request._res_fur: 0 pending, else the Response's reference
    heap,        \* the LambdaResponse objects constructed, by reference
    waiter,      \* the orchestrator's pending await: "none", "pending", "ready"
    got,         \* the local `response` of _get_final_response, 0 if unset
    envelope,    \* None, or Some(the envelope process_lambda_request returned)
    handler,     \* None, or Some(class of the handler constructed)
    hpc,         \* where the handler's entry point stands
    bg_active,   \* work offloaded by the entry point is running
    nOps,        \* calls made by handler code so far
    lastOp,      \* the last call made by handler code and its outcome
    trace,       \* what the transaction did, in order (history)
    nBegin,      \* calls of write_response so far (history)
    created,     \* references returned by write_response (history)
    wlog,        \* per Response, the arguments of its write calls (history)
    finAt,       \* per Response, Len(wlog) at its first finish, -1 before
    begun,       \* per Response, the arguments write_response got (history)
    fn,          \* the function applied on its own, "none" in a transaction
    fn_in,       \* its input
    fn_out       \* None, or Some(its result)

vars == <<event, pc, exc, request, res_fur, heap, waiter, got, envelope,
          handler, hpc, bg_active, nOps, lastOp, trace, nBegin, created,
          wlog, finAt, begun, fn, fn_in, fn_out>>

orchVars == <<pc, exc, got, envelope, handler, trace>>
fnVars == <<fn, fn_in, fn_out>>
histVars == <<nBegin, created, wlog, finAt, begun>>

NoOp ==
    [op |-> "none", result |-> "", rid |-> 0, arg |-> <<>>,
     finishedBefore |-> FALSE, env |-> None]

Init ==
    /\ event \in Events
    /\ pc = "start"
    /\ exc = ""
    /\ request = None
    /\ res_fur = 0
    /\ heap = <<>>
    /\ waiter = "none"
    /\ got = 0
    /\ envelope = None
    /\ handler = None
    /\ hpc = "none"
    /\ bg_active = FALSE
    /\ nOps = 0
    /\ lastOp = NoOp
    /\ trace = <<>>
    /\ nBegin = 0
    /\ created = <<>>
    /\ wlog = <<>>
    /\ finAt = <<>>
    /\ begun = <<>>
    /\ fn = "none"
    /\ fn_in = <<>>
    /\ fn_out = None

\* ------------------------------------------------------------------------
\* Application.process_lambda_request, one step per statement. The steps
\* between two suspension points run without interleaving.
\* ------------------------------------------------------------------------
\* request = impl_lambda.LambdaRequest(event)
Decode ==
    /\ pc = "start"
    /\ LET r == LambdaRequestInit(event)
       IN  IF r.ok
           THEN /\ request' = Some(r.request)
                /\ pc' = "process_request"
                /\ exc' = exc
                /\ trace' = Append(trace, <<"decode", "">>)
           ELSE /\ request' = request
                /\ pc' = "raised"
                /\ exc' = r.error
                /\ trace' = Append(trace, <<"decode_failed", "">>)
    /\ UNCHANGED <<fnVars, event, res_fur, heap, waiter, got, envelope, handler, hpc,
                   bg_active, nOps, lastOp, histVars>>

\* process_request, lines 132-139: resolve the path and construct the handler.
Resolve ==
    /\ pc = "process_request"
    /\ handler' = Some(ResolveHandler(RequestPath(request[1])))
    /\ pc' = "invoke"
    /\ trace' = Append(Append(trace, <<"resolve", "">>),
                       <<"construct", handler'[1]>>)
    /\ UNCHANGED <<fnVars, event, exc, request, res_fur, heap, waiter, got, envelope,
                   hpc, bg_active, nOps, lastOp, histVars>>

\* process_request, line 141: await handler._process_request()
Invoke ==
    /\ pc = "invoke"
    /\ pc' = "in_handler"
    /\ hpc' = "before"
    /\ trace' = Append(trace, <<"invoke", handler[1]>>)
    /\ UNCHANGED <<fnVars, event, exc, request, res_fur, heap, waiter, got, envelope,
                   handler, bg_active, nOps, lastOp, histVars>>

\* _get_final_response, line 157: response = await self._res_fur
AwaitResFur ==
    /\ pc = "get_final"
    /\ IF FutureDone(res_fur)
       THEN /\ got' = res_fur
            /\ pc' = "wait_finished"
            /\ waiter' = waiter
       ELSE /\ got' = got
            /\ pc' = "parked_fut"
            /\ waiter' = "pending"
    /\ trace' = Append(trace, <<"await",
                               IF FutureDone(res_fur) THEN "ready" ELSE "parked">>)
    /\ UNCHANGED <<fnVars, event, exc, request, res_fur, heap, envelope, handler, hpc,
                   bg_active, nOps, lastOp, histVars>>

\* The future's result reaches the suspended orchestrator.
ResumeResFur ==
    /\ pc = "parked_fut"
    /\ waiter = "ready"
    /\ got' = res_fur
    /\ pc' = "wait_finished"
    /\ waiter' = "none"
    /\ UNCHANGED <<fnVars, event, exc, request, res_fur, heap, envelope, handler, hpc,
                   bg_active, nOps, lastOp, trace, histVars>>

\* _get_final_response, line 158: await response.wait_finished()
WaitFinished ==
    /\ pc = "wait_finished"
    /\ IF WaitFinishedReady(heap[got])
       THEN /\ pc' = "get_final_return"
            /\ waiter' = waiter
       ELSE /\ pc' = "parked_event"
            /\ waiter' = "pending"
    /\ trace' = Append(trace, <<"wait_finished",
                               IF WaitFinishedReady(heap[got]) THEN "ready"
                               ELSE "parked">>)
    /\ UNCHANGED <<fnVars, event, exc, request, res_fur, heap, got, envelope, handler,
                   hpc, bg_active, nOps, lastOp, histVars>>

\* Event.set() resolved the waiter's future: the orchestrator resumes.
ResumeFinished ==
    /\ pc = "parked_event"
    /\ waiter = "ready"
    /\ pc' = "get_final_return"
    /\ waiter' = "none"
    /\ UNCHANGED <<fnVars, event, exc, request, res_fur, heap, got, envelope, handler,
                   hpc, bg_active, nOps, lastOp, trace, histVars>>

\* _get_final_response, line 160: return response
GetFinalReturn ==
    /\ pc = "get_final_return"
    /\ pc' = "translate"
    /\ trace' = Append(trace, <<"awaited", "">>)
    /\ UNCHANGED <<fnVars, event, exc, request, res_fur, heap, waiter, got, envelope,
                   handler, hpc, bg_active, nOps, lastOp, histVars>>

\* process_lambda_request, line 150: return response.translate()
TranslateStep ==
    /\ pc = "translate"
    /\ LET r == Translate(heap[got])
       IN  IF r.ok
           THEN /\ envelope' = r.env
                /\ pc' = "returned"
                /\ exc' = exc
                /\ trace' = Append(trace, <<"translate", "">>)
           ELSE /\ envelope' = envelope
                /\ pc' = "raised"
                /\ exc' = "AssertionError"
                /\ trace' = Append(trace, <<"translate_failed", "">>)
    /\ UNCHANGED <<fnVars, event, request, res_fur, heap, waiter, got, handler, hpc,
                   bg_active, nOps, lastOp, histVars>>

\* ------------------------------------------------------------------------
\* The handler: its entry point _process_request, run inside the
\* orchestrator's task, and work it offloads to another task. Every call on
\* the Request or the Response is one step (none of them suspends); between
\* two calls the caller may yield.
\* ------------------------------------------------------------------------
Tasks == {"entry", "bg"}

\* Positions at which the orchestrator's task is suspended or gone, so that
\* another task can run.
Suspended == {"in_handler", "parked_fut", "parked_event", "returned", "raised"}

CanRun(t) ==
    /\ nOps < MaxOps
    /\ request # None
    /\ \/ t = "entry" /\ pc = "in_handler" /\ hpc = "body"
       \/ t = "bg" /\ bg_active /\ pc \in Suspended

\* What the before() hook does: Application.DefaultHandler.before raises
\* HttpError(NOT_FOUND); a routed handler's passes or raises.
BeforeOutcomes(h) ==
    IF h = "default" THEN {"HttpError:NOT_FOUND"}
    ELSE {"pass"} \cup HandlerErrors

\* The status of the Response an error raised by the handler is converted
\* into: the HttpError's own, 500 for any other error.
ErrorStatus(e) ==
    CASE e = "HttpError:NOT_FOUND" -> "NOT_FOUND"
      [] e = "HttpError:FORBIDDEN" -> "FORBIDDEN"
      [] OTHER -> "INTERNAL_SERVER_ERROR"

\* _process_request runs before(); an error it raises is recovered into a
\* minimal finished Response and the entry point returns.
Before ==
    /\ pc = "in_handler"
    /\ hpc = "before"
    /\ \E o \in BeforeOutcomes(handler[1]) :
         IF o = "pass"
         THEN /\ hpc' = "body"
              /\ UNCHANGED <<pc, res_fur, heap, trace, histVars>>
         ELSE LET w == WriteResponse(res_fur, heap, ErrorStatus(o), <<>>)
              IN  /\ hpc' = "done"
                  /\ pc' = "get_final"
                  /\ res_fur' = w.fur
                  /\ heap' = IF w.ok
                             THEN [w.objs EXCEPT ![w.rid] = ResponseFinish(@)]
                             ELSE w.objs
                  /\ trace' = Append(trace, <<"handler_error", o>>)
                  /\ nBegin' = nBegin + 1
                  /\ created' = IF w.ok THEN Append(created, w.rid) ELSE created
                  /\ wlog' = IF w.ok THEN Append(wlog, <<>>) ELSE wlog
                  /\ finAt' = IF w.ok THEN Append(finAt, 0) ELSE finAt
                  /\ begun' = IF w.ok
                              THEN Append(begun, [status_code |-> ErrorStatus(o),
                                                  headers |-> <<>>])
                              ELSE begun
    /\ UNCHANGED <<fnVars, event, exc, request, waiter, got, envelope, handler,
                   bg_active, nOps, lastOp>>

\* The entry point offloads work to another task.
Spawn ==
    /\ pc = "in_handler"
    /\ hpc = "body"
    /\ ~bg_active
    /\ bg_active' = TRUE
    /\ UNCHANGED <<fnVars, event, pc, exc, request, res_fur, heap, waiter, got,
                   envelope, handler, hpc, nOps, lastOp, trace, histVars>>

\* The entry point returns: process_request returns to
\* process_lambda_request, which goes on to _get_final_response.
HandlerReturn ==
    /\ pc = "in_handler"
    /\ hpc = "body"
    /\ hpc' = "done"
    /\ pc' = "get_final"
    /\ trace' = Append(trace, <<"handler_returned", "">>)
    /\ UNCHANGED <<fnVars, event, exc, request, res_fur, heap, waiter, got, envelope,
                   handler, bg_active, nOps, lastOp, histVars>>

\* request.write_response(status_code, headers=headers)
BeginResponse(t, status_code, headers) ==
    /\ CanRun(t)
    /\ LET w == WriteResponse(res_fur, heap, status_code, headers)
       IN  /\ res_fur' = w.fur
           /\ heap' = w.objs
           /\ waiter' = IF w.ok /\ pc = "parked_fut" /\ waiter = "pending"
                        THEN "ready" ELSE waiter
           /\ lastOp' = [op |-> "write_response",
                         result |-> IF w.ok THEN "ok" ELSE "HttpError",
                         rid |-> w.rid, arg |-> <<>>,
                         finishedBefore |-> FALSE, env |-> None]
           /\ created' = IF w.ok THEN Append(created, w.rid) ELSE created
           /\ wlog' = IF w.ok THEN Append(wlog, <<>>) ELSE wlog
           /\ finAt' = IF w.ok THEN Append(finAt, -1) ELSE finAt
           /\ begun' = IF w.ok
                       THEN Append(begun, [status_code |-> status_code,
                                           headers |-> headers])
                       ELSE begun
    /\ nBegin' = nBegin + 1
    /\ nOps' = nOps + 1
    /\ UNCHANGED <<fnVars, event, request, hpc, bg_active, orchVars>>

\* response.write(data)
Write(t, r, data) ==
    /\ CanRun(t)
    /\ r \in 1..Len(heap)
    /\ heap' = [heap EXCEPT ![r] = ResponseWrite(@, data)]
    /\ lastOp' = [op |-> "write", result |-> "ok", rid |-> r, arg |-> data,
                  finishedBefore |-> ResponseFinished(heap[r]), env |-> None]
    /\ wlog' = [wlog EXCEPT ![r] = Append(@, data)]
    /\ nOps' = nOps + 1
    /\ UNCHANGED <<fnVars, event, request, res_fur, waiter, hpc, bg_active, orchVars,
                   nBegin, created, finAt, begun>>

\* A finish whose Event.set() sets the flag and wakes nobody.
FinishNoWake(t, r) ==
    /\ CanRun(t)
    /\ r \in 1..Len(heap)
    /\ heap' = [heap EXCEPT ![r] = [@ EXCEPT !.finished = TRUE]]
    /\ lastOp' = [op |-> "finish", result |-> "ok", rid |-> r, arg |-> <<>>,
                  finishedBefore |-> heap[r].finished, env |-> None]
    /\ finAt' = [finAt EXCEPT ![r] = IF @ = -1 THEN Len(wlog[r]) ELSE @]
    /\ nOps' = nOps + 1
    /\ UNCHANGED <<fnVars, event, request, res_fur, waiter, hpc, bg_active,
                   orchVars, nBegin, created, wlog, begun>>

\* response.finish(): Event.set() wakes the waiters the first time only.
Finish(t, r) ==
    /\ CanRun(t)
    /\ r \in 1..Len(heap)
    /\ heap' = [heap EXCEPT ![r] = ResponseFinish(@)]
    /\ waiter' = IF /\ pc = "parked_event" /\ got = r /\ waiter = "pending"
                    /\ ~heap[r].finished
                 THEN "ready" ELSE waiter
    /\ lastOp' = [op |-> "finish", result |-> "ok", rid |-> r, arg |-> <<>>,
                  finishedBefore |-> ResponseFinished(heap[r]), env |-> None]
    /\ finAt' = [finAt EXCEPT ![r] = IF @ = -1 THEN Len(wlog[r]) ELSE @]
    /\ nOps' = nOps + 1
    /\ UNCHANGED <<fnVars, event, request, res_fur, hpc, bg_active, orchVars, nBegin,
                   created, wlog, begun>>

\* response.translate() called by handler code.
CallTranslate(t, r) ==
    /\ CanRun(t)
    /\ r \in 1..Len(heap)
    /\ LET x == Translate(heap[r])
       IN  lastOp' = [op |-> "translate",
                      result |-> IF x.ok THEN "ok" ELSE "AssertionError",
                      rid |-> r, arg |-> <<>>,
                      finishedBefore |-> ResponseFinished(heap[r]),
                      env |-> x.env]
    /\ nOps' = nOps + 1
    /\ UNCHANGED <<fnVars, event, request, res_fur, heap, waiter, hpc, bg_active,
                   orchVars, histVars>>

Next ==
    \/ Decode
    \/ Resolve
    \/ Invoke
    \/ Before
    \/ Spawn
    \/ HandlerReturn
    \/ AwaitResFur
    \/ ResumeResFur
    \/ WaitFinished
    \/ ResumeFinished
    \/ GetFinalReturn
    \/ TranslateStep
    \/ \E t \in Tasks, sc \in StatusCodes, hs \in HeaderArgs :
           BeginResponse(t, sc, hs)
    \/ \E t \in Tasks, r \in 1..Len(heap), data \in Fragments : Write(t, r, data)
    \/ \E t \in Tasks, r \in 1..Len(heap) : Finish(t, r)
    \/ \E t \in Tasks, r \in 1..Len(heap) : CallTranslate(t, r)

Spec == Init /\ [][Next]_vars

\* The steps of the task running process_lambda_request after the handler's
\* entry point has come back. The event loop runs every callback that is
\* ready, in FIFO order, so a step of this task that stays enabled is
\* eventually taken; nothing obliges handler code to make its calls.
OrchestratorStep ==
    \/ AwaitResFur
    \/ ResumeResFur
    \/ WaitFinished
    \/ ResumeFinished
    \/ GetFinalReturn
    \/ TranslateStep

\* The transactions of the events that decode, with one status, no headers
\* and one fragment for the handler's calls: which values the handler passes
\* has no bearing on whether the orchestrator returns.
FairInit == Init /\ event \in ValidEvents

FairNext ==
    \/ Decode
    \/ Resolve
    \/ Invoke
    \/ Before
    \/ Spawn
    \/ HandlerReturn
    \/ OrchestratorStep
    \/ \E t \in Tasks : BeginResponse(t, "OK", <<>>)
    \/ \E t \in Tasks, r \in 1..Len(heap) : Write(t, r, <<97>>)
    \/ \E t \in Tasks, r \in 1..Len(heap) : Finish(t, r)
    \/ \E t \in Tasks, r \in 1..Len(heap) : CallTranslate(t, r)

FairSpec == FairInit /\ [][FairNext]_vars /\ WF_vars(OrchestratorStep)

\* ------------------------------------------------------------------------
\* The pure transforms applied on their own to inputs drawn from bounded
\* sets: the flattening and grouping of headers, the translation of a body,
\* and the decoding of an event.
\* ------------------------------------------------------------------------
SeqsUpTo(S, n) == UNION {[1..k -> S] : k \in 0..n}

\* Multi-valued maps as a transport gives them: name -> list of values, the
\* names distinct as written.
HdrKeys == {"Set-Cookie", "SET-COOKIE", "X-A", "Content-Length"}
HdrValues == {<<>>, <<"a=1">>, <<"a=1", "b=2">>, <<"b=2", "a=1">>}
HeaderMaps ==
    {m \in SeqsUpTo(HdrKeys \X HdrValues, MaxHdrNames) :
        \A i, j \in 1..Len(m) : i # j => m[i][1] # m[j][1]}

\* Bodies: "a", NUL, the two bytes of U+00E9, the three of U+20AC, 0xFF.
BodyBytes == {0, 97, 195, 169, 226, 130, 172, 255}
Bodies == SeqsUpTo(BodyBytes, MaxBody)

\* Events that have every required field, with the optional ones present,
\* null or missing. The texts are "", "hi", "aGk=", "/w=" and U+00E9.
EventBodies ==
    {[kind |-> "absent", text |-> <<>>], [kind |-> "null", text |-> <<>>]}
    \cup {[kind |-> "str", text |-> t] :
             t \in {<<>>, <<104, 105>>, <<97, 71, 107, 61>>, <<47, 119, 61>>,
                    <<233>>}}

DecodeEvents ==
    {[isBase64Encoded |-> Some(f),
      body |-> b,
      httpMethod |-> Some("get"),
      requestContext |-> Some([protocol |-> Some("HTTP/1.1"), domainName |-> dn]),
      path |-> pth,
      queries |-> q,
      multiValueHeaders |-> Some(h)] :
        f \in BOOLEAN, b \in EventBodies,
        dn \in {None, Some("example.com")},
        pth \in {None, Some("/hello")},
        q \in {[kind |-> "absent", map |-> <<>>], [kind |-> "null", map |-> <<>>],
               [kind |-> "map", map |-> << <<"X-A", <<"1", "2">> >> >>]},
        h \in {<<>>, << <<"X-Forwarded-Proto", <<"HTTPS">> >> >>}}

txVars == <<event, pc, exc, request, res_fur, heap, waiter, got, envelope,
            handler, hpc, bg_active, nOps, lastOp, trace, histVars>>

FnInit ==
    /\ event = BaseEvent
    /\ pc = "start"
    /\ exc = ""
    /\ request = None
    /\ res_fur = 0
    /\ heap = <<>>
    /\ waiter = "none"
    /\ got = 0
    /\ envelope = None
    /\ handler = None
    /\ hpc = "none"
    /\ bg_active = FALSE
    /\ nOps = 0
    /\ lastOp = NoOp
    /\ trace = <<>>
    /\ nBegin = 0
    /\ created = <<>>
    /\ wlog = <<>>
    /\ finAt = <<>>
    /\ begun = <<>>
    /\ fn_out = None
    /\ \/ fn = "group_headers" /\ fn_in \in HeaderMaps
       \/ fn = "translate_body" /\ fn_in \in Bodies
       \/ fn = "decode" /\ fn_in \in DecodeEvents

\* The headers of a transport map flattened into a FrozenTolerantMagicDict
\* (LambdaRequest.__init__) and grouped again (LambdaResponse.translate).
ApplyGroupHeaders ==
    /\ fn = "group_headers"
    /\ fn_out = None
    /\ LET d == TolerantMagicDict(Flatten(fn_in))
       IN  fn_out' = Some([dict |-> d, grouped |-> GroupHeaders(d, <<>>)])
    /\ UNCHANGED <<fn, fn_in, txVars>>

\* The body part of translate on a Response holding the body as one chunk.
ApplyTranslateBody ==
    /\ fn = "translate_body"
    /\ fn_out = None
    /\ LET b == TranslateBody(IF fn_in = <<>> THEN <<>> ELSE <<fn_in>>)
       IN  fn_out' = Some([isBase64Encoded |-> b.b64_encoded,
                           body |-> b.body_str])
    /\ UNCHANGED <<fn, fn_in, txVars>>

\* LambdaRequest(event)
ApplyDecode ==
    /\ fn = "decode"
    /\ fn_out = None
    /\ fn_out' = Some(LambdaRequestInit(fn_in))
    /\ UNCHANGED <<fn, fn_in, txVars>>

FnNext == ApplyGroupHeaders \/ ApplyTranslateBody \/ ApplyDecode

FnSpec == FnInit /\ [][FnNext]_vars

\* ------------------------------------------------------------------------
\* Helpers of the properties.
\* ------------------------------------------------------------------------
InTrace(e) == \E i \in 1..Len(trace) : trace[i] = e

NonEmpty(frags) == SelectSeq(frags, LAMBDA f : f # <<>>)

IsPrefix(a, b) == Len(a) <= Len(b) /\ SubSeq(b, 1, Len(a)) = a

\* The bytes an envelope's body stands for, read according to its flag.
EnvelopeBytes(env) ==
    IF env.isBase64Encoded THEN B64Decode(env.body).bytes
    ELSE Utf8Encode(env.body)

\* The fragments passed to write on Response r before its first finish.
WrittenBeforeFinish(r) == SubSeq(wlog[r], 1, finAt[r])

\* The body translate made is the fragments written before finish, in call
\* order and without the empty ones; it is exactly that when no write was
\* accepted after finish.
BodyKeepsWrites(env, r) ==
    LET pre == Join(NonEmpty(WrittenBeforeFinish(r)))
    IN  /\ IsPrefix(pre, EnvelopeBytes(env))
        /\ (Len(wlog[r]) = finAt[r] => EnvelopeBytes(env) = pre)

ValidEnvelope(env) ==
    /\ env.isBase64Encoded \in BOOLEAN
    /\ env.statusCode \in 100..599
    /\ (env.isBase64Encoded => B64Decode(env.body).ok)

\* ------------------------------------------------------------------------
\* Properties.
\* ------------------------------------------------------------------------
\* C1: of all the calls of write_response on a Request, whichever task makes
\* them, exactly the first succeeds and returns a Response; every later one
\* fails with the HttpError and returns none.
ThmC1 ==
    /\ Len(heap) = Len(created)
    /\ Len(created) <= 1
    /\ lastOp.op = "write_response" =>
          /\ (lastOp.result = "ok") <=> (nBegin = 1)
          /\ lastOp.result = "ok" => lastOp.rid = res_fur /\ created = <<lastOp.rid>>
          /\ lastOp.result # "ok" => lastOp.result = "HttpError" /\ lastOp.rid = 0

WitC1 ==
    /\ lastOp.op = "write_response"
    /\ lastOp.result = "HttpError"
    /\ nBegin >= 2
    /\ bg_active

\* C2: every call of write made after finish fails with an illegal-state
\* error, whatever the fragment.
CexC2 ==
    (lastOp.op = "write" /\ lastOp.finishedBefore) =>
        lastOp.result = "IllegalStateError"

\* C3: the body translate produces is the concatenation, in call order, of
\* the non-empty fragments written before finish: none is lost, duplicated
\* or reordered, and empty fragments contribute nothing.
ThmC3 ==
    /\ pc = "returned" => BodyKeepsWrites(envelope[1], got)
    /\ (lastOp.op = "translate" /\ lastOp.result = "ok") =>
           BodyKeepsWrites(lastOp.env[1], lastOp.rid)

WitC3 ==
    /\ pc = "returned"
    /\ Len(wlog[got]) = finAt[got]
    /\ \E i, j \in 1..Len(wlog[got]) :
          /\ i < j
          /\ wlog[got][i] # <<>>
          /\ wlog[got][j] # <<>>
          /\ wlog[got][i] # wlog[got][j]

\* C4: once a Response is finished its fragment sequence never changes.
CexC4 ==
    [][\A r \in 1..Len(heap) :
          heap[r].finished => heap'[r].body_chunks = heap[r].body_chunks]_vars

\* C5: _get_final_response returns only when the slot is assigned and the
\* assigned Response is finished, and it returns the Response that the one
\* successful write_response created, whether write_response and finish ran
\* before the wait started or after.
ThmC5 ==
    pc \in {"get_final_return", "translate"} =>
        /\ FutureDone(res_fur)
        /\ got = res_fur
        /\ got \in 1..Len(heap)
        /\ ResponseFinished(heap[got])
        /\ created = <<got>>

WitC5 ==
    /\ pc = "translate"
    /\ InTrace(<<"await", "parked">>)
    /\ InTrace(<<"wait_finished", "parked">>)

\* C6: finish on a finished Response succeeds and changes nothing, and a
\* finished Response stays finished.
ThmC6 ==
    [][/\ \A r \in 1..Len(heap) :
             ResponseFinished(heap[r]) => ResponseFinished(heap'[r])
       /\ (lastOp'.op = "finish" /\ nOps' = nOps + 1
             /\ ResponseFinished(heap[lastOp'.rid])) =>
             (lastOp'.result = "ok" /\ heap' = heap /\ res_fur' = res_fur)]_vars

WitC6 ==
    /\ lastOp.op = "finish"
    /\ lastOp.finishedBefore
    /\ lastOp.result = "ok"
    /\ heap[lastOp.rid].body_chunks # <<>>

\* C7: translate on a Response that is not finished fails with the
\* AssertionError, produces no envelope and leaves the Response unchanged.
ThmC7 ==
    [][(lastOp'.op = "translate" /\ nOps' = nOps + 1
          /\ ~ResponseFinished(heap[lastOp'.rid])) =>
          /\ lastOp'.result = "AssertionError"
          /\ lastOp'.env = None
          /\ heap' = heap
          /\ res_fur' = res_fur
          /\ envelope' = envelope]_vars

WitC7 ==
    /\ lastOp.op = "translate"
    /\ lastOp.result = "AssertionError"
    /\ ~lastOp.finishedBefore
    /\ heap[lastOp.rid].body_chunks # <<>>

CexC9 ==
    InTrace(<<"decode_failed", "">>) =>
        /\ envelope # None
        /\ envelope[1].statusCode \in 400..499
        /\ exc = ""
        /\ request = None
        /\ handler = None
        /\ ~InTrace(<<"resolve", "">>)

\* C10: for a path the router does not match the default handler is used,
\* no routed handler is constructed or invoked, handler code makes no call,
\* and the outcome is a 404 status.
ThmC10 ==
    (request # None /\ RequestPath(request[1]) \notin Routes) =>
        /\ handler # None => handler[1] = "default"
        /\ ~InTrace(<<"construct", "routed">>)
        /\ ~InTrace(<<"invoke", "routed">>)
        /\ nOps = 0
        /\ ~bg_active
        /\ exc = ""
        /\ \A r \in 1..Len(heap) : StatusInt(heap[r].status_code) = 404
        /\ pc = "returned" => envelope # None /\ envelope[1].statusCode = 404

WitC10 ==
    /\ pc = "returned"
    /\ request # None
    /\ RequestPath(request[1]) \notin Routes
    /\ InTrace(<<"invoke", "default">>)
    /\ envelope # None
    /\ envelope[1].statusCode = 404

\* The integer of each status code that appears in the model.
HttpCode ==
    [OK |-> 200, FORBIDDEN |-> 403, NOT_FOUND |-> 404,
     INTERNAL_SERVER_ERROR |-> 500]

\* C11: for every valid event and every status code given to write_response,
\* the statusCode of a translated envelope is that code's integer; write,
\* finish and a failed second write_response do not change it.
ThmC11 ==
    /\ \A r \in 1..Len(heap) : heap[r].status_code = begun[r].status_code
    /\ pc = "returned" =>
          envelope[1].statusCode = HttpCode[begun[got].status_code]
    /\ (lastOp.op = "translate" /\ lastOp.result = "ok") =>
          lastOp.env[1].statusCode = HttpCode[begun[lastOp.rid].status_code]

WitC11 ==
    /\ pc = "returned"
    /\ InTrace(<<"handler_returned", "">>)
    /\ nBegin >= 2
    /\ wlog[got] # <<>>
    /\ begun[got].status_code = "NOT_FOUND"
    /\ envelope[1].statusCode = 404

\* The names of a multiValueHeaders mapping, and the values under name n.
EnvHeaderNames(env) ==
    {env.multiValueHeaders[i][1] : i \in 1..Len(env.multiValueHeaders)}

EnvHeaderHas(env, n, v) ==
    \E i \in 1..Len(env.multiValueHeaders) :
        /\ Lower(env.multiValueHeaders[i][1]) = Lower(n)
        /\ \E j \in 1..Len(env.multiValueHeaders[i][2]) :
              env.multiValueHeaders[i][2][j] = v

NoContentLength(env, given) ==
    /\ \A n \in EnvHeaderNames(env) : Lower(n) # "content-length"
    /\ \A i \in 1..Len(given) :
          Lower(given[i][1]) # "content-length" =>
              EnvHeaderHas(env, given[i][1], given[i][2])

\* C12: whatever headers write_response was given, in any letter case of
\* the names, the translated multiValueHeaders has no content-length entry
\* and still has every other header given.
ThmC12 ==
    /\ pc = "returned" => NoContentLength(envelope[1], begun[got].headers)
    /\ (lastOp.op = "translate" /\ lastOp.result = "ok") =>
          NoContentLength(lastOp.env[1], begun[lastOp.rid].headers)

WitC12 ==
    /\ pc = "returned"
    /\ \E i, j \in 1..Len(begun[got].headers) :
          /\ begun[got].headers[i][1] = "CONTENT-LENGTH"
          /\ begun[got].headers[j][1] = "content-length"
    /\ EnvHeaderHas(envelope[1], "X-A", "1")

\* The values a grouped mapping holds under a name, compared without
\* regard to letter case, and the values a multi-valued map holds under it.
GroupedValues(g, n) ==
    Join([i \in 1..Len(g) |-> IF Lower(g[i][1]) = Lower(n) THEN g[i][2] ELSE <<>>])

MapValues(m, n) ==
    Join([i \in 1..Len(m) |-> IF Lower(m[i][1]) = Lower(n) THEN m[i][2] ELSE <<>>])

PairValues(d, n) ==
    LET sel == SelectSeq(d, LAMBDA p : Lower(p[1]) = Lower(n))
    IN  [k \in 1..Len(sel) |-> sel[k][2]]

FirstIndex(d, n) ==
    CHOOSE i \in 1..Len(d) :
        /\ Lower(d[i][1]) = Lower(n)
        /\ \A j \in 1..(i - 1) : Lower(d[j][1]) # Lower(n)

\* g groups the pairs d: names distinct without regard to case, in
\* first-seen order, each with its values in their order in d; the name
\* content-length is left out.
GroupsPairs(g, d) ==
    /\ \A i, j \in 1..Len(g) : i # j => Lower(g[i][1]) # Lower(g[j][1])
    /\ {Lower(g[i][1]) : i \in 1..Len(g)} =
           {Lower(d[k][1]) : k \in 1..Len(d)} \ {"content-length"}
    /\ \A i, j \in 1..Len(g) :
           i < j => FirstIndex(d, g[i][1]) < FirstIndex(d, g[j][1])
    /\ \A i \in 1..Len(g) : g[i][2] = PairValues(d, g[i][1])

GroupApplied == fn = "group_headers" /\ fn_out # None

\* C13 as stated: translation groups the Response's header pairs by
\* case-insensitive name, distinct names in first-seen order, the values of
\* each name in their original order, and flattening a multi-valued map and
\* grouping it again gives back, for every name of the map, the same values
\* in the same order.
CexC13 ==
    GroupApplied =>
        /\ GroupsPairs(fn_out[1].grouped, fn_out[1].dict)
        /\ \A k \in 1..Len(fn_in) :
              GroupedValues(fn_out[1].grouped, fn_in[k][1]) =
                  MapValues(fn_in, fn_in[k][1])

\* C13, amended: the grouping is as stated, and the round trip gives back the
\* same values in the same order for every name other than content-length,
\* which translation leaves out.
ThmC13 ==
    GroupApplied =>
        /\ GroupsPairs(fn_out[1].grouped, fn_out[1].dict)
        /\ \A k \in 1..Len(fn_in) :
              IF Lower(fn_in[k][1]) = "content-length"
              THEN GroupedValues(fn_out[1].grouped, fn_in[k][1]) = <<>>
              ELSE GroupedValues(fn_out[1].grouped, fn_in[k][1]) =
                       MapValues(fn_in, fn_in[k][1])

WitC13 ==
    /\ GroupApplied
    /\ fn_in = << <<"Set-Cookie", <<"a=1", "b=2">> >>, <<"X-A", <<"b=2", "a=1">> >> >>
    /\ fn_out[1].grouped =
           << <<"set-cookie", <<"a=1", "b=2">> >>, <<"x-a", <<"b=2", "a=1">> >> >>

\* The code points whose UTF-8 encodings are made of the bytes in BodyBytes,
\* and the bodies that are the UTF-8 encoding of some text.
BodyConts == {130, 169, 172}
BodyCodePoints ==
    {0, 97}
    \cup {(195 - 192) * 64 + (c - 128) : c \in BodyConts}
    \cup {(226 - 224) * 4096 + (c[1] - 128) * 64 + (c[2] - 128) :
             c \in BodyConts \X BodyConts}

ValidUtf8Bodies == {Utf8Encode(t) : t \in SeqsUpTo(BodyCodePoints, MaxBody)}

IsBase64Text(s) ==
    /\ Len(s) % 4 = 0
    /\ \A i \in 1..Len(s) :
          \/ s[i] \in 48..57 \/ s[i] \in 65..90 \/ s[i] \in 97..122
          \/ s[i] \in {43, 47}
          \/ s[i] = 61 /\ i > Len(s) - 2

BodyApplied == fn = "translate_body" /\ fn_out # None

\* C14: for every body B, translate gives isBase64Encoded = false and the
\* decoded text when B is valid UTF-8, and isBase64Encoded = true and the
\* standard base64 text of B otherwise; decoding the envelope's body as its
\* flag says gives back exactly B.
ThmC14 ==
    BodyApplied =>
        /\ fn_in \in ValidUtf8Bodies =>
              /\ fn_out[1].isBase64Encoded = FALSE
              /\ Utf8Encode(fn_out[1].body) = fn_in
              /\ fn_out[1].body = Utf8Decode(fn_in).text
        /\ fn_in \notin ValidUtf8Bodies =>
              /\ fn_out[1].isBase64Encoded = TRUE
              /\ fn_out[1].body = B64Encode(fn_in)
              /\ IsBase64Text(fn_out[1].body)
              /\ Len(fn_out[1].body) = 4 * ((Len(fn_in) + 2) \div 3)
        /\ EnvelopeBytes(fn_out[1]) = fn_in

\* The body 0xFF "a" becomes the base64 text "/2E=".
WitC14 ==
    /\ BodyApplied
    /\ fn_in = <<255, 97>>
    /\ fn_out[1] = [isBase64Encoded |-> TRUE, body |-> <<47, 50, 69, 61>>]

\* The bytes of U+20AC stay text.
WitC14Text ==
    /\ BodyApplied
    /\ fn_in = <<226, 130, 172>>
    /\ fn_out[1] = [isBase64Encoded |-> FALSE, body |-> <<8364>>]

DecodeApplied == fn = "decode" /\ fn_out # None

\* The body the event's flag alone prescribes: base64-decoded when the flag
\* is set, the text's bytes otherwise, empty when the body is absent or null.
BodyByFlag(ev) ==
    IF ev.body.kind \in {"absent", "null"} THEN <<>>
    ELSE IF ev.isBase64Encoded[1] THEN B64Decode(ev.body.text).bytes
    ELSE Utf8Encode(ev.body.text)

\* An event whose body, when there is one, can be decoded as its flag says.
BodyWellFormed(ev) ==
    \/ ev.body.kind \in {"absent", "null"}
    \/ ~ev.isBase64Encoded[1]
    \/ B64Decode(ev.body.text).ok

\* C15 as stated: construction builds the body from the flag alone, and
\* gives empty bytes without failing whenever the body is absent or null,
\* whatever the flag.
CexC15 ==
    (DecodeApplied /\ BodyWellFormed(fn_in)) =>
        /\ fn_out[1].ok
        /\ fn_out[1].request.body = BodyByFlag(fn_in)

\* What construction does with the body: it succeeds exactly when the body
\* key is present and, under a set flag, holds decodable text; then the
\* body is the one the flag prescribes.
BodyAsCoded ==
    DecodeApplied =>
        /\ fn_out[1].ok <=>
              /\ fn_in.body.kind # "absent"
              /\ fn_in.isBase64Encoded[1] =>
                    /\ fn_in.body.kind = "str"
                    /\ B64Decode(fn_in.body.text).ok
        /\ fn_out[1].ok => fn_out[1].request.body = BodyByFlag(fn_in)

\* The values construction gives the optional fields of an event.
OptionalDefaults(ev, req) ==
    /\ ev.path = None => req.uri = "/"
    /\ ev.path # None => req.uri = ev.path[1]
    /\ ev.requestContext[1].domainName = None =>
          /\ req.authority = None
          /\ ~RequestAuthority(req).ok
    /\ ev.requestContext[1].domainName # None =>
          RequestAuthority(req) =
              [ok |-> TRUE, value |-> ev.requestContext[1].domainName[1]]
    /\ ev.multiValueHeaders[1] = <<>> =>
          /\ req.scheme = None
          /\ ~RequestScheme(req).ok
    /\ ev.multiValueHeaders[1] # <<>> =>
          RequestScheme(req) = [ok |-> TRUE, value |-> "https"]
    /\ ev.queries.kind \in {"absent", "null"} => req.queries = <<>>
    /\ ev.queries.kind = "map" =>
          req.queries = << <<"x-a", "1">>, <<"x-a", "2">> >>

\* C16 as stated: construction succeeds for every event that has the
\* required fields, whichever optional fields are missing, with uri "/",
\* absent authority, absent scheme and empty query parameters for the
\* missing ones, and reading an absent authority or scheme raises.
CexC16 ==
    (DecodeApplied /\ BodyWellFormed(fn_in)) =>
        /\ fn_out[1].ok
        /\ OptionalDefaults(fn_in, fn_out[1].request)

\* Whenever construction succeeds the optional fields have those values.
DefaultsWhenDecoded ==
    (DecodeApplied /\ fn_out[1].ok) =>
        OptionalDefaults(fn_in, fn_out[1].request)

\* A step that is a begin_response call ending in the conflict error.
ConflictStep ==
    /\ nBegin' = nBegin + 1
    /\ lastOp'.op = "write_response"
    /\ lastOp'.result = "HttpError"

\* C17: the coordination slot starts empty; once it holds a Response it
\* holds the same one in every later state; a begin_response that fails with
\* the conflict error changes neither the slot nor any Response (status,
\* headers, fragments, finished flag).
ThmC17 ==
    /\ res_fur = 0
    /\ [][/\ res_fur # 0 => res_fur' = res_fur
          /\ ConflictStep => (res_fur' = res_fur /\ heap' = heap)]_vars

\* A conflict has just been signalled while the slot holds a finished
\* Response with a fragment.
WitC17 ==
    /\ lastOp.op = "write_response"
    /\ lastOp.result = "HttpError"
    /\ res_fur = 1
    /\ Len(heap) = 1
    /\ heap[1].finished
    /\ heap[1].body_chunks # <<>>

\* The place of each recorded step in process_lambda_request:
\* LambdaRequest(event); process_request resolving and constructing the
\* handler, invoking it, the handler coming back; _get_final_response
\* awaiting the slot, waiting for finished, returning; translate.
StepRank(e) ==
    CASE e[1] \in {"decode", "decode_failed"} -> 1
      [] e[1] = "resolve" -> 2
      [] e[1] = "construct" -> 3
      [] e[1] = "invoke" -> 4
      [] e[1] \in {"handler_returned", "handler_error"} -> 5
      [] e[1] = "await" -> 6
      [] e[1] = "wait_finished" -> 7
      [] e[1] = "awaited" -> 8
      [] e[1] \in {"translate", "translate_failed"} -> 9

\* C18: the steps of a transaction occur only in the order decode, resolve
\* handler, invoke handler, await final response, translate, each once and
\* none skipped; translate is called only on the finished Response of the
\* slot, so its assertion never fails in the orchestrator, whichever task
\* began or finished the response and whenever it did.
ThmC18 ==
    /\ \A i \in 1..Len(trace) : StepRank(trace[i]) = i
    /\ InTrace(<<"decode_failed", "">>) => Len(trace) = 1
    /\ pc = "translate" =>
          /\ got = res_fur
          /\ got \in 1..Len(heap)
          /\ heap[got].finished
          /\ Len(trace) = 8
    /\ ~InTrace(<<"translate_failed", "">>)
    /\ exc # "AssertionError"
    /\ pc = "returned" => (Len(trace) = 9 /\ envelope # None)

\* An envelope was returned for a response that was begun and finished only
\* after the entry point had returned and the orchestrator had parked on
\* the slot and then on the finished signal.
WitC18 ==
    /\ pc = "returned"
    /\ InTrace(<<"handler_returned", "">>)
    /\ InTrace(<<"await", "parked">>)
    /\ InTrace(<<"wait_finished", "parked">>)
    /\ wlog[got] # <<>>

\* C19: in every reachable state each Response has the status code, the
\* headers and the owning Request that begin_response gave it, whatever
\* writes and finishes it has seen.
ThmC19 ==
    /\ [](/\ Len(begun) = Len(heap)
          /\ \A r \in 1..Len(heap) :
                /\ heap[r].status_code = begun[r].status_code
                /\ heap[r].headers = TolerantMagicDict(begun[r].headers)
                /\ heap[r].request = "request")
    /\ [][\A r \in 1..Len(heap) :
            /\ heap'[r].status_code = heap[r].status_code
            /\ heap'[r].headers = heap[r].headers
            /\ heap'[r].request = heap[r].request]_vars

\* A Response created with NOT_FOUND and headers has been written to, also
\* after its finish, and finished twice.
WitC19 ==
    /\ Len(heap) = 1
    /\ begun[1].status_code = "NOT_FOUND"
    /\ begun[1].headers # <<>>
    /\ heap[1].finished
    /\ Len(heap[1].body_chunks) >= 1
    /\ finAt[1] < Len(wlog[1])
    /\ lastOp.op = "finish"
    /\ lastOp.finishedBefore

\* The handler's entry point has come back to process_request.
EntryReturned ==
    pc \notin {"start", "process_request", "invoke", "in_handler", "raised"}

SlotFinished == res_fur # 0 /\ heap[res_fur].finished

\* C20: under fair scheduling, once the entry point has returned and
\* begin_response and finish have been called for the Request,
\* process_lambda_request eventually returns an envelope; while no Response
\* has been begun it stays in the await of the slot, while the Response is
\* not finished it stays in _get_final_response, and it returns in no state
\* where the slot's Response is not finished.
ThmC20 ==
    /\ (EntryReturned /\ SlotFinished) ~> (pc = "returned" /\ envelope # None)
    /\ [](pc = "returned" => SlotFinished)
    /\ []((EntryReturned /\ res_fur = 0) => pc \in {"get_final", "parked_fut"})
    /\ []((EntryReturned /\ res_fur # 0 /\ ~heap[res_fur].finished) =>
             pc \in {"get_final", "parked_fut", "wait_finished", "parked_event"})

\* The orchestrator parked on the slot and on the finished signal, both
\* were raised by background work, and the envelope was returned.
WitC20 ==
    /\ pc = "returned"
    /\ envelope # None
    /\ InTrace(<<"handler_returned", "">>)
    /\ InTrace(<<"await", "parked">>)
    /\ InTrace(<<"wait_finished", "parked">>)
    /\ wlog[got] # <<>>
    /\ nBegin = 1

\* The orchestrator is suspended on the empty slot with no task left to run.
WitC20Stuck ==
    /\ pc = "parked_fut"
    /\ res_fur = 0
    /\ waiter = "pending"
    /\ ~bg_active

====
